---- MODULE Spec2Model ----
(***************************************************************************)
(* A model of the planning executive of path_planner                       *)
(* (src/path_planner/src/executive/executive.cpp).                         *)
(*                                                                         *)
(* The world is one-dimensional: a position is a cell 0..MaxPos, a ribbon   *)
(* occupies one of the cells 1..MaxPos, and cell 0 carries no ribbon.       *)
(* Headings, times and turning radii are integers.  The planning task is    *)
(* one thread whose position in planLoop is pc; the callers of the public   *)
(* operations and the detached map loaders are the other threads.           *)
(***************************************************************************)
EXTENDS Integers, FiniteSets, TLC

\* ---------------------------------------------------------------- bounds
MaxPos == 1
MaxHeading == 2
MaxTime == 2
MaxShrink == 4
MaxRefresh == 2
MaxCost == 1
MaxRemaining == 7
MaxObstacleUpdates == 2

\* ------------------------------------------------------ program constants
c_CoverageHeadingRateMax == 1
c_RadiusShrinkAmount == 1
InitialTurningRadius == 8
c_PlanningTimeSeconds == 1

Pos == 0..MaxPos
Cells == 1..MaxPos
Headings == 0..MaxHeading
Times == 0..MaxTime
Paths == {"", "grid.map"}
Mmsis == {1, 2}

VARIABLES
    m_PlannerState,          \* "Inactive", "Running", "Cancelled"
    pc,                      \* position of the planning task ("Idle": no task)
    startState,              \* planLoop local: [x, valid]; valid = (time() # -1)
    plan,                    \* planLoop local: "empty" or "nonempty"
    ribbonManagerCopy,       \* planLoop local: the snapshot given to the planner
    m_RadiusShrink,
    turningRadius,           \* m_PlannerConfig.turningRadius()
    coverageTurningRadius,   \* m_PlannerConfig.coverageTurningRadius()
    configMap,               \* m_PlannerConfig.map()
    c_RadiusShrinkEnabled,   \* compile-time flag, fixed by Init
    c_ReusePlanEnabled,      \* compile-time flag, fixed by Init
    m_RibbonManager,         \* the live ribbon manager: the set of uncovered cells
    m_LastHeading,
    m_LastUpdateTime,
    m_LastState,             \* [x, time]
    m_RibbonManagerMutex,    \* "free", or the thread that holds it across steps
    m_Heuristic,             \* the heuristic of the live ribbon manager
    ribbonAccess,            \* threads in the middle of an access to the live ribbon manager
    configHeuristic,         \* heuristic argument of the setConfiguration call in progress
    copyHeuristic,           \* heuristic of ribbonManagerCopy (copied with the ribbons)
    synth,                   \* ghost: what line 100 read and computed in this iteration
    m_DynamicObstaclesManager, \* per mmsi: the update that wrote the entry (0: absent)
    configObstacles,         \* m_PlannerConfig.obstacles()
    obstacleHistory,         \* ghost: every content the obstacle manager has had
    nObstacleUpdates,        \* updateDynamicObstacle calls so far
    \* AStarPlanner::plan
    apc,                     \* position in plan: "Idle", "While", "Body", "AStarWhile",
                             \* "AStarTest", "Update", "Return", "Done"
    now,                     \* the clock behind nowFn()
    timeRemaining,           \* plan argument
    previousPlan,            \* plan argument: [empty, feasible, cost, h, goal]
    endTime,
    startV,
    lastPlanEnd,
    ribbonSamples,           \* vertices of ribbonSamples and otherRibbonSamples
    vertexQueue,
    m_BestVertex,
    vertex,                  \* aStar local
    aStarResult,             \* plan local v: what aStar returned
    m_ExpandedCount,
    m_IterationCount,
    returned,                \* the plan returned, once apc = "Done": [empty, cost]
    expired,                 \* ghost: a poll has returned a time >= endTime
    goalPopped,              \* ghost: a popped vertex passed the goal test
    m_MapMutex,              \* "free" or "loader"
    m_NewMap,
    m_CurrentMapPath,
    waiting,                 \* loader threads blocked on m_MapMutex, per path
    loaderPath,              \* path of the loader that holds m_MapMutex
    loaderPc,                \* "none", "locked", "loaded", "failed", "same"
    \* history (ghost) variables
    exitPath,                \* how the last planning task ended
    threw,                   \* a std::exception was caught in this run
    allDoneCalls,            \* publisher.allDone() calls of this run
    checkedState,            \* PlannerState seen by this iteration's top check
    diverged,                \* the previous iteration found the controller diverged
    cancelCalled,            \* cancelPlanner was called since startPlanner returned
    updSeq,                  \* 0: no updateCovered yet, else alternates 1, 2
    nRefresh,                \* refreshMap calls so far
    nLoaded,                 \* successful loads so far (map identities)
    installs,                \* per map identity: times installed in the config
    failedPaths,             \* paths whose latest load attempt failed
    tryLockResult            \* this iteration's try_lock: "none", "acquired", "contended", "spurious"

plannerVars == <<m_PlannerState, pc, startState, plan, ribbonManagerCopy,
                 m_RadiusShrink, turningRadius, coverageTurningRadius,
                 c_RadiusShrinkEnabled, c_ReusePlanEnabled>>
ribbonVars == <<m_RibbonManager>>
poseVars == <<m_LastHeading, m_LastUpdateTime, m_LastState, updSeq>>
loaderVars == <<m_MapMutex, m_CurrentMapPath, waiting, loaderPath, loaderPc,
                nRefresh, nLoaded, failedPaths>>
mapVars == <<configMap, m_NewMap, installs, tryLockResult>>
histVars == <<exitPath, threw, allDoneCalls, checkedState, diverged, cancelCalled>>
ribbonLockVars == <<m_RibbonManagerMutex, m_Heuristic, ribbonAccess, configHeuristic,
                    copyHeuristic>>

searchVars == <<apc, timeRemaining, previousPlan, endTime, startV, lastPlanEnd,
                ribbonSamples, vertexQueue, m_BestVertex, vertex, aStarResult,
                m_ExpandedCount, m_IterationCount, returned, expired, goalPopped>>
astarVars == <<now, searchVars>>
obstacleVars == <<m_DynamicObstaclesManager, configObstacles, obstacleHistory,
                  nObstacleUpdates>>

execVars == <<plannerVars, ribbonVars, poseVars, loaderVars, mapVars, histVars,
              ribbonLockVars, synth, obstacleVars>>
vars == <<execVars, astarVars>>

\* ------------------------------------------------------------- map values
NullMap == [id |-> 0, kind |-> "null"]
EmptyMap == [id |-> 0, kind |-> "Map"]

\* pathToMapFile.find(".map") != -1
LooksLikeGridWorld(pathToMapFile) == pathToMapFile = "grid.map"

\* the map object a successful load creates
LoadedMap(n, pathToMapFile) ==
    [id |-> n,
     kind |-> IF LooksLikeGridWorld(pathToMapFile) THEN "GridWorldMap" ELSE "GeoTiffMap"]

\* ---------------------------------------------------------- RibbonManager
\* the heuristic ids setConfiguration accepts (lines 262-266)
Heuristics == 0..4
\* RibbonManager::Heuristic::TspPointRobotNoSplitKRibbons (line 264)
TspPointRobotNoSplitKRibbons == 2
NoHeuristic == 0 - 1

RibbonManager_add(rm, x) == rm \cup {x}
RibbonManager_cover(rm, x) == rm \ {x}
RibbonManager_coverBetween(rm, a, b) ==
    rm \ {c \in Cells : (a <= c /\ c <= b) \/ (b <= c /\ c <= a)}
RibbonManager_done(rm) == rm = {}

\* ----------------------------------------------------------------- Vertex
\* A vertex of the search graph: how it was made, the true cost g from the
\* root, the approximate cost to go h, and whether its ribbon coverage is
\* done().  A vertex whose coverage is done has nothing left to go.
NullVertex == [kind |-> "null", g |-> 0, h |-> 0, goal |-> FALSE]
Costs == 0..MaxCost
VerticesOfKind(kind) ==
    {w \in [kind : {kind}, g : Costs, h : Costs, goal : BOOLEAN] : w.goal => w.h = 0}
Vertex_makeRoot(h, goal) == [kind |-> "root", g |-> 0, h |-> h, goal |-> goal]
Vertex_f(w) == w.g + w.h

\* tracePlan: the edges from the root to the vertex; none when it is the root
TracePlan(w) == [empty |-> w.kind = "root", cost |-> w.g]
\* DubinsPlan()
EmptyPlan == [empty |-> TRUE, cost |-> 0]

\* no call of plan has been made
PlannerIdle ==
    /\ apc = "Idle"
    /\ now = 0
    /\ timeRemaining = 0
    /\ previousPlan = [empty |-> TRUE, feasible |-> TRUE, cost |-> 0, h |-> 0, goal |-> FALSE]
    /\ endTime = 0
    /\ startV = NullVertex
    /\ lastPlanEnd = NullVertex
    /\ ribbonSamples = {}
    /\ vertexQueue = {}
    /\ m_BestVertex = NullVertex
    /\ vertex = NullVertex
    /\ aStarResult = NullVertex
    /\ m_ExpandedCount = 0
    /\ m_IterationCount = 0
    /\ returned = EmptyPlan
    /\ expired = FALSE
    /\ goalPopped = FALSE

\* ------------------------------------------------------------------ State
SentinelState == [x |-> 0, valid |-> FALSE]
\* nothing synthesized in this iteration
NoSynth == [used |-> FALSE, now |-> 0, lastTime |-> 0, dt |-> 0, seq |-> 0]
\* DynamicObstaclesManager(): no obstacle
NoObstacles == [m \in Mmsis |-> 0]
\* DynamicObstaclesManager::update: the entry of one mmsi is replaced, whole
DynamicObstaclesManager_update(manager, mmsi, dists) == [manager EXCEPT ![mmsi] = dists]
\* PlannerConfig::setObstacles: the config holds a copy, by value, of the
\* manager as it is at the call
PlannerConfig_setObstacles(manager) == manager
\* State::push: straight-line motion; the pushed state has a real time
State_push(s) == {[x |-> nx, valid |-> TRUE] : nx \in {s.x, IF s.x < MaxPos THEN s.x + 1 ELSE s.x}}

\* the state after construction, but for the compile-time flags and the pose
\* members, whose initial values executive.h sets
Constructed ==
    /\ m_PlannerState = "Inactive"
    /\ pc = "Idle"
    /\ startState = SentinelState
    /\ plan = "empty"
    /\ ribbonManagerCopy = {}
    /\ m_RadiusShrink = 0
    /\ turningRadius = InitialTurningRadius
    /\ coverageTurningRadius = InitialTurningRadius
    /\ configMap = NullMap
    /\ m_RibbonManager = {}
    /\ m_LastState = [x |-> 0, time |-> -1]
    /\ m_MapMutex = "free"
    /\ m_NewMap = NullMap
    /\ m_CurrentMapPath = ""
    /\ waiting = [p \in Paths |-> 0]
    /\ loaderPath = ""
    /\ loaderPc = "none"
    /\ exitPath = "none"
    /\ threw = FALSE
    /\ allDoneCalls = 0
    /\ checkedState = "none"
    /\ diverged = FALSE
    /\ cancelCalled = FALSE
    /\ updSeq = 0
    /\ nRefresh = 0
    /\ nLoaded = 0
    /\ installs = [n \in 1..MaxRefresh |-> 0]
    /\ failedPaths = {}
    /\ tryLockResult = "none"
    /\ m_RibbonManagerMutex = "free"
    /\ m_Heuristic = TspPointRobotNoSplitKRibbons
    /\ ribbonAccess = {}
    /\ configHeuristic = NoHeuristic
    /\ copyHeuristic = NoHeuristic
    /\ PlannerIdle
    /\ synth = NoSynth
    /\ m_DynamicObstaclesManager = NoObstacles
    /\ configObstacles = NoObstacles
    /\ obstacleHistory = {NoObstacles}
    /\ nObstacleUpdates = 0

\* either value of each flag; no heading and no update time recorded yet
Init ==
    /\ Constructed
    /\ c_RadiusShrinkEnabled \in BOOLEAN
    /\ c_ReusePlanEnabled \in BOOLEAN
    /\ m_LastHeading = 0
    /\ m_LastUpdateTime = 0

\* any last heading and last update time
InitCover ==
    /\ Constructed
    /\ c_RadiusShrinkEnabled \in BOOLEAN
    /\ c_ReusePlanEnabled \in BOOLEAN
    /\ m_LastHeading \in Headings
    /\ m_LastUpdateTime \in Times

\* plan reuse without the radius-shrink experiment
InitReuse ==
    /\ Constructed
    /\ c_RadiusShrinkEnabled = FALSE
    /\ c_ReusePlanEnabled = TRUE
    /\ m_LastHeading = 0
    /\ m_LastUpdateTime = 0

\* ------------------------------------------------------- public operations

\* The gate of updateCovered as the code computes it, on IEEE doubles:
\* (m_LastHeading - heading) / m_LastUpdateTime <= c_CoverageHeadingRateMax.
\* A zero divisor gives -inf (true), +inf (false) or NaN (false).
HeadingGate(lastHeading, heading, lastUpdateTime) ==
    IF lastUpdateTime > 0
    THEN lastHeading - heading <= c_CoverageHeadingRateMax * lastUpdateTime
    ELSE IF lastUpdateTime < 0
    THEN lastHeading - heading >= c_CoverageHeadingRateMax * lastUpdateTime
    ELSE lastHeading - heading < 0

updateCovered(x, heading, t) ==
    /\ HeadingGate(m_LastHeading, heading, m_LastUpdateTime) => m_RibbonManagerMutex = "free"
    /\ m_RibbonManager' = IF HeadingGate(m_LastHeading, heading, m_LastUpdateTime)
                          THEN RibbonManager_cover(m_RibbonManager, x)
                          ELSE m_RibbonManager
    /\ m_LastUpdateTime' = t
    /\ m_LastHeading' = heading
    /\ m_LastState' = [x |-> x, time |-> t]
    /\ updSeq' = IF updSeq = 1 THEN 2 ELSE 1
    /\ UNCHANGED <<plannerVars, loaderVars, mapVars, histVars>>
    /\ UNCHANGED ribbonLockVars
    /\ UNCHANGED astarVars
    /\ UNCHANGED <<synth, obstacleVars>>

addRibbon(x) ==
    /\ m_RibbonManagerMutex = "free"
    /\ m_RibbonManager' = RibbonManager_add(m_RibbonManager, x)
    /\ UNCHANGED <<plannerVars, poseVars, loaderVars, mapVars, histVars>>
    /\ UNCHANGED ribbonLockVars
    /\ UNCHANGED astarVars
    /\ UNCHANGED <<synth, obstacleVars>>

clearRibbons ==
    /\ m_RibbonManagerMutex = "free"
    /\ m_RibbonManager' = {}
    /\ m_Heuristic' = TspPointRobotNoSplitKRibbons
    /\ UNCHANGED <<plannerVars, poseVars, loaderVars, mapVars, histVars>>
    /\ UNCHANGED <<m_RibbonManagerMutex, ribbonAccess, configHeuristic, copyHeuristic>>
    /\ UNCHANGED astarVars
    /\ UNCHANGED <<synth, obstacleVars>>

\* startPlanner while a planning task is alive is outside the specification
\* (section 4.5), so a task is launched only when none is alive.
startPlanner ==
    /\ pc = "Idle"
    /\ configMap' = IF configMap = NullMap THEN EmptyMap ELSE configMap
    /\ pc' = "Handshake"
    /\ exitPath' = "none"
    /\ threw' = FALSE
    /\ allDoneCalls' = 0
    /\ checkedState' = "none"
    /\ diverged' = FALSE
    /\ cancelCalled' = FALSE
    /\ UNCHANGED <<m_PlannerState, startState, plan, ribbonManagerCopy, m_RadiusShrink,
                   turningRadius, coverageTurningRadius, c_RadiusShrinkEnabled,
                   c_ReusePlanEnabled, ribbonVars, poseVars, loaderVars,
                   m_NewMap, installs, tryLockResult>>
    /\ UNCHANGED ribbonLockVars
    /\ UNCHANGED astarVars
    /\ UNCHANGED <<synth, obstacleVars>>

\* cancelPlanner without its test for Running
CancelledFrom_Unguarded(state) == "Cancelled"

\* cancelPlanner that never leaves Running
CancelledFrom_Never(state) == state

\* the state cancelPlanner leaves, from the state it finds
CancelledFrom(state) == IF state = "Running" THEN "Cancelled" ELSE state

cancelPlanner ==
    /\ m_PlannerState' = CancelledFrom(m_PlannerState)
    /\ cancelCalled' = (cancelCalled \/ pc # "Idle")
    /\ UNCHANGED <<pc, startState, plan, ribbonManagerCopy, m_RadiusShrink,
                   turningRadius, coverageTurningRadius, c_RadiusShrinkEnabled,
                   c_ReusePlanEnabled, ribbonVars, poseVars, loaderVars, mapVars,
                   exitPath, threw, allDoneCalls, checkedState, diverged>>
    /\ UNCHANGED ribbonLockVars
    /\ UNCHANGED astarVars
    /\ UNCHANGED <<synth, obstacleVars>>

\* ------------------------------------------------------- the planning task
flagVars == <<c_RadiusShrinkEnabled, c_ReusePlanEnabled>>
radiusVars == <<m_RadiusShrink, turningRadius, coverageTurningRadius>>
envVars == <<ribbonVars, poseVars, loaderVars>>

\* lines 47-57: the start-up handshake; the wait ends when the state is not
\* Cancelled, or after two seconds with the state still Cancelled
Handshake ==
    /\ pc = "Handshake"
    /\ IF m_PlannerState = "Cancelled"
       THEN /\ pc' = "Idle"
            /\ exitPath' = "timeout"
            /\ UNCHANGED <<m_PlannerState, startState, plan>>
       ELSE /\ m_PlannerState' = "Running"
            /\ pc' = "LoopTop"
            /\ startState' = SentinelState
            /\ plan' = "empty"
            /\ UNCHANGED exitPath
    /\ UNCHANGED <<ribbonManagerCopy, radiusVars, flagVars, envVars, mapVars,
                   threw, allDoneCalls, checkedState, diverged, cancelCalled>>
    /\ UNCHANGED ribbonLockVars
    /\ UNCHANGED astarVars
    /\ UNCHANGED <<synth, obstacleVars>>

\* lines 63-72: the top of the loop
LoopTop ==
    /\ pc = "LoopTop"
    /\ checkedState' = m_PlannerState
    /\ IF m_PlannerState = "Cancelled"
       THEN pc' = "Exit" /\ exitPath' = "cancelled"
       ELSE pc' = "CheckDone" /\ UNCHANGED exitPath
    /\ UNCHANGED <<m_PlannerState, startState, plan, ribbonManagerCopy, radiusVars,
                   flagVars, envVars, mapVars, threw, allDoneCalls, diverged,
                   cancelCalled>>
    /\ UNCHANGED ribbonLockVars
    /\ UNCHANGED astarVars
    /\ UNCHANGED <<synth, obstacleVars>>

\* An iteration adds at most two shrink amounts to m_RadiusShrink and the
\* radii drift; an iteration starts only while they stay within MaxShrink.
WithinShrinkBound ==
    /\ m_RadiusShrink + 2 * c_RadiusShrinkAmount <= MaxShrink
    /\ turningRadius <= InitialTurningRadius + MaxShrink

\* the done() check without its break: allDone is called and the loop goes on
CheckDone_NoBreak ==
    /\ m_RibbonManagerMutex = "free"
    /\ pc = "CheckDone"
    /\ IF RibbonManager_done(m_RibbonManager)
       THEN allDoneCalls' = allDoneCalls + 1
       ELSE UNCHANGED allDoneCalls
    /\ WithinShrinkBound
    /\ pc' = "MapSwap"
    /\ UNCHANGED <<m_PlannerState, startState, plan, ribbonManagerCopy, radiusVars,
                   flagVars, envVars, mapVars, threw, checkedState, diverged,
                   cancelCalled, exitPath>>
    /\ UNCHANGED ribbonLockVars
    /\ UNCHANGED astarVars
    /\ UNCHANGED <<synth, obstacleVars>>

\* the done() check with its condition negated
CheckDone_Negated ==
    /\ m_RibbonManagerMutex = "free"
    /\ pc = "CheckDone"
    /\ IF ~RibbonManager_done(m_RibbonManager)
       THEN /\ allDoneCalls' = allDoneCalls + 1
            /\ pc' = "Exit"
            /\ exitPath' = "done"
       ELSE /\ WithinShrinkBound
            /\ pc' = "MapSwap"
            /\ UNCHANGED <<allDoneCalls, exitPath>>
    /\ UNCHANGED <<m_PlannerState, startState, plan, ribbonManagerCopy, radiusVars,
                   flagVars, envVars, mapVars, threw, checkedState, diverged,
                   cancelCalled>>
    /\ UNCHANGED ribbonLockVars
    /\ UNCHANGED astarVars
    /\ UNCHANGED <<synth, obstacleVars>>

\* lines 73-86: the done() check (and the ribbon display, which changes nothing)
CheckDone ==
    /\ m_RibbonManagerMutex = "free"
    /\ pc = "CheckDone"
    /\ IF RibbonManager_done(m_RibbonManager)
       THEN /\ allDoneCalls' = allDoneCalls + 1
            /\ pc' = "Exit"
            /\ exitPath' = "done"
       ELSE /\ WithinShrinkBound
            /\ pc' = "MapSwap"
            /\ UNCHANGED <<allDoneCalls, exitPath>>
    /\ UNCHANGED <<m_PlannerState, startState, plan, ribbonManagerCopy, radiusVars,
                   flagVars, envVars, mapVars, threw, checkedState, diverged,
                   cancelCalled>>
    /\ UNCHANGED ribbonLockVars
    /\ UNCHANGED astarVars
    /\ UNCHANGED <<synth, obstacleVars>>

\* the map swap with lock() in place of try_lock()
MapSwap_Blocking ==
    /\ pc = "MapSwap"
    /\ m_MapMutex = "free"
    /\ configMap' = IF m_NewMap # NullMap THEN m_NewMap ELSE configMap
    /\ installs' = IF m_NewMap # NullMap
                   THEN [installs EXCEPT ![m_NewMap.id] = @ + 1]
                   ELSE installs
    /\ m_NewMap' = NullMap
    /\ tryLockResult' = "acquired"
    /\ pc' = "Prepare"
    /\ UNCHANGED <<m_PlannerState, startState, plan, ribbonManagerCopy, radiusVars,
                   flagVars, envVars, histVars>>
    /\ UNCHANGED ribbonLockVars
    /\ UNCHANGED astarVars
    /\ UNCHANGED <<synth, obstacleVars>>

\* lines 88-96: try_lock never blocks; it fails when a loader holds the mutex
\* and may fail spuriously
MapSwap ==
    /\ pc = "MapSwap"
    /\ \/ /\ m_MapMutex = "free"
          /\ configMap' = IF m_NewMap # NullMap THEN m_NewMap ELSE configMap
          /\ installs' = IF m_NewMap # NullMap
                         THEN [installs EXCEPT ![m_NewMap.id] = @ + 1]
                         ELSE installs
          /\ m_NewMap' = NullMap
          /\ tryLockResult' = "acquired"
       \/ /\ tryLockResult' = IF m_MapMutex = "free" THEN "spurious" ELSE "contended"
          /\ UNCHANGED <<configMap, m_NewMap, installs>>
    /\ pc' = "Prepare"
    /\ UNCHANGED <<m_PlannerState, startState, plan, ribbonManagerCopy, radiusVars,
                   flagVars, envVars, histVars>>
    /\ UNCHANGED ribbonLockVars
    /\ UNCHANGED astarVars
    /\ UNCHANGED <<synth, obstacleVars>>

\* DubinsPlan::changeIntoSuffix drops the prefix before the start time; the
\* suffix may be empty
DubinsPlan_changeIntoSuffix(p) == IF p = "empty" THEN {"empty"} ELSE {"nonempty", "empty"}

\* the push of line 100 as P - (now - lastStateTime)
PushTime_Elapsed(time, lastStateTime) == c_PlanningTimeSeconds - (time - lastStateTime)

\* line 100: getTime() + c_PlanningTimeSeconds - m_LastState.time()
PushTime(time, lastStateTime) == time + c_PlanningTimeSeconds - lastStateTime

\* lines 98-112: synthesize the start state, trim the previous plan, shrink
Prepare ==
    /\ pc = "Prepare"
    /\ IF ~startState.valid
       THEN /\ startState' \in State_push(m_LastState)
            /\ synth' = [used |-> TRUE, now |-> now, lastTime |-> m_LastState.time,
                         dt |-> PushTime(now, m_LastState.time), seq |-> updSeq]
       ELSE UNCHANGED <<startState, synth>>
    /\ plan' \in DubinsPlan_changeIntoSuffix(IF c_ReusePlanEnabled THEN plan ELSE "empty")
    /\ IF c_RadiusShrinkEnabled
       THEN /\ turningRadius' = turningRadius - c_RadiusShrinkAmount
            /\ coverageTurningRadius' = coverageTurningRadius - c_RadiusShrinkAmount
            /\ m_RadiusShrink' = m_RadiusShrink + c_RadiusShrinkAmount
       ELSE UNCHANGED radiusVars
    /\ pc' = "Snapshot"
    /\ UNCHANGED <<m_PlannerState, ribbonManagerCopy, flagVars, envVars, mapVars, histVars>>
    /\ UNCHANGED ribbonLockVars
    /\ UNCHANGED astarVars
    /\ UNCHANGED obstacleVars

\* the snapshot of lines 117-123 without the setObstacles of line 117
Snapshot_StaleObstacles ==
    /\ m_RibbonManagerMutex = "free"
    /\ pc = "Snapshot"
    /\ ribbonManagerCopy' = m_RibbonManager
    /\ copyHeuristic' = m_Heuristic
    /\ pc' = "Cover"
    /\ UNCHANGED <<m_PlannerState, startState, plan, radiusVars, flagVars, envVars,
                   mapVars, histVars>>
    /\ UNCHANGED <<m_RibbonManagerMutex, m_Heuristic, ribbonAccess, configHeuristic>>
    /\ UNCHANGED astarVars
    /\ UNCHANGED <<synth, obstacleVars>>

\* the snapshot of lines 117-123 taken without m_RibbonManagerMutex
Snapshot_NoMutex ==
    /\ pc = "Snapshot"
    /\ configObstacles' = PlannerConfig_setObstacles(m_DynamicObstaclesManager)
    /\ ribbonManagerCopy' = m_RibbonManager
    /\ copyHeuristic' = m_Heuristic
    /\ pc' = "Cover"
    /\ UNCHANGED <<m_PlannerState, startState, plan, radiusVars, flagVars, envVars,
                   mapVars, histVars>>
    /\ UNCHANGED <<m_RibbonManagerMutex, m_Heuristic, ribbonAccess, configHeuristic>>
    /\ UNCHANGED astarVars
    /\ UNCHANGED <<synth, m_DynamicObstaclesManager, obstacleHistory, nObstacleUpdates>>

\* lines 117-123: install the obstacle manager in the config (a copy) and
\* copy the live ribbon manager under its mutex
Snapshot ==
    /\ m_RibbonManagerMutex = "free"
    /\ pc = "Snapshot"
    /\ configObstacles' = PlannerConfig_setObstacles(m_DynamicObstaclesManager)
    /\ ribbonManagerCopy' = m_RibbonManager
    /\ copyHeuristic' = m_Heuristic
    /\ pc' = "Cover"
    /\ UNCHANGED <<m_PlannerState, startState, plan, radiusVars, flagVars, envVars,
                   mapVars, histVars>>
    /\ UNCHANGED <<m_RibbonManagerMutex, m_Heuristic, ribbonAccess, configHeuristic>>
    /\ UNCHANGED astarVars
    /\ UNCHANGED <<synth, m_DynamicObstaclesManager, obstacleHistory, nObstacleUpdates>>

\* lines 124-125: cover the copy up to the state planned from
CoverCopy ==
    /\ pc = "Cover"
    /\ ribbonManagerCopy' = RibbonManager_coverBetween(ribbonManagerCopy, m_LastState.x, startState.x)
    /\ synth' = NoSynth
    /\ pc' = "Plan"
    /\ UNCHANGED <<m_PlannerState, startState, plan, radiusVars, flagVars, envVars,
                   mapVars, histVars>>
    /\ UNCHANGED ribbonLockVars
    /\ UNCHANGED astarVars
    /\ UNCHANGED obstacleVars

\* lines 126-137: planner.plan returns a plan or throws; both handlers call
\* cancelPlanner, the second rethrows
PlanStep ==
    /\ pc = "Plan"
    /\ ribbonManagerCopy' = {}
    /\ copyHeuristic' = NoHeuristic
    /\ diverged' = FALSE
    /\ \/ /\ plan' \in {"empty", "nonempty"}
          /\ pc' = "Publish"
          /\ UNCHANGED <<m_PlannerState, threw, exitPath>>
       \/ /\ m_PlannerState' = CancelledFrom(m_PlannerState)
          /\ threw' = TRUE
          /\ pc' = "Publish"
          /\ UNCHANGED <<plan, exitPath>>
       \/ /\ m_PlannerState' = CancelledFrom(m_PlannerState)
          /\ pc' = "Idle"
          /\ exitPath' = "rethrow"
          /\ UNCHANGED <<plan, threw>>
    /\ UNCHANGED <<startState, radiusVars, flagVars, envVars, configMap, m_NewMap,
                   installs, tryLockResult, allDoneCalls, checkedState, cancelCalled>>
    /\ UNCHANGED <<m_RibbonManagerMutex, m_Heuristic, ribbonAccess, configHeuristic>>
    /\ UNCHANGED astarVars
    /\ UNCHANGED <<synth, obstacleVars>>

\* lines 139-187: sleep, display, publish the plan and compare the start the
\* controller committed to with the plan
Publish ==
    /\ pc = "Publish"
    /\ IF plan # "empty"
       THEN /\ startState' \in [x : Pos, valid : BOOLEAN]
            /\ \/ /\ plan' = "empty"
                  /\ diverged' = TRUE
                  /\ IF c_RadiusShrinkEnabled
                     THEN /\ turningRadius' = turningRadius + m_RadiusShrink
                          /\ coverageTurningRadius' = coverageTurningRadius + m_RadiusShrink
                          /\ m_RadiusShrink' = 0
                     ELSE UNCHANGED radiusVars
               \/ /\ m_RadiusShrink' = m_RadiusShrink + c_RadiusShrinkAmount
                  /\ diverged' = FALSE
                  /\ UNCHANGED <<plan, turningRadius, coverageTurningRadius>>
       ELSE /\ startState' = SentinelState
            /\ diverged' = FALSE
            /\ UNCHANGED <<plan, radiusVars>>
    /\ pc' = "LoopTop"
    /\ checkedState' = "none"
    /\ tryLockResult' = "none"
    /\ UNCHANGED <<m_PlannerState, ribbonManagerCopy, flagVars, envVars, configMap,
                   m_NewMap, installs, exitPath, threw, allDoneCalls, cancelCalled>>
    /\ UNCHANGED ribbonLockVars
    /\ UNCHANGED astarVars
    /\ UNCHANGED <<synth, obstacleVars>>

\* lines 190-192: leave the loop
Exit ==
    /\ pc = "Exit"
    /\ m_PlannerState' = "Inactive"
    /\ pc' = "Idle"
    /\ checkedState' = "none"
    /\ tryLockResult' = "none"
    /\ UNCHANGED <<startState, plan, ribbonManagerCopy, radiusVars, flagVars, envVars,
                   configMap, m_NewMap, installs, exitPath, threw, allDoneCalls,
                   diverged, cancelCalled>>
    /\ UNCHANGED ribbonLockVars
    /\ UNCHANGED astarVars
    /\ UNCHANGED <<synth, obstacleVars>>

planLoop ==
    \/ Handshake
    \/ LoopTop
    \/ CheckDone
    \/ MapSwap
    \/ Prepare
    \/ Snapshot
    \/ CoverCopy
    \/ PlanStep
    \/ Publish
    \/ Exit

\* ------------------------------------------------------------- refreshMap
\* line 207: the call spawns a detached loader thread
refreshMap(pathToMapFile) ==
    /\ nRefresh < MaxRefresh
    /\ nRefresh' = nRefresh + 1
    /\ waiting' = [waiting EXCEPT ![pathToMapFile] = @ + 1]
    /\ UNCHANGED <<plannerVars, ribbonVars, poseVars, mapVars, histVars, m_MapMutex,
                   m_CurrentMapPath, loaderPath, loaderPc, nLoaded, failedPaths>>
    /\ UNCHANGED ribbonLockVars
    /\ UNCHANGED astarVars
    /\ UNCHANGED <<synth, obstacleVars>>

\* line 208: a loader gets the mutex
LoaderLock(pathToMapFile) ==
    /\ waiting[pathToMapFile] > 0
    /\ m_MapMutex = "free"
    /\ m_MapMutex' = "loader"
    /\ waiting' = [waiting EXCEPT ![pathToMapFile] = @ - 1]
    /\ loaderPath' = pathToMapFile
    /\ loaderPc' = "locked"
    /\ UNCHANGED <<plannerVars, ribbonVars, poseVars, mapVars, histVars,
                   m_CurrentMapPath, nRefresh, nLoaded, failedPaths>>
    /\ UNCHANGED ribbonLockVars
    /\ UNCHANGED astarVars
    /\ UNCHANGED <<synth, obstacleVars>>

\* the handler of a failed load that records the path as loaded
LoadFailed_MarksLoaded ==
    /\ m_NewMap' = NullMap
    /\ m_CurrentMapPath' = loaderPath
    /\ failedPaths' = failedPaths \cup {loaderPath}
    /\ loaderPc' = "failed"
    /\ UNCHANGED nLoaded

\* lines 220-225: the handler of a failed load
LoadFailed ==
    /\ m_NewMap' = NullMap
    /\ m_CurrentMapPath' = ""
    /\ failedPaths' = failedPaths \cup {loaderPath}
    /\ loaderPc' = "failed"
    /\ UNCHANGED nLoaded

\* lines 209-226: the load, under the mutex
LoaderLoad ==
    /\ loaderPc = "locked"
    /\ IF m_CurrentMapPath # loaderPath
       THEN \/ /\ m_NewMap' = LoadedMap(nLoaded + 1, loaderPath)
               /\ nLoaded' = nLoaded + 1
               /\ m_CurrentMapPath' = loaderPath
               /\ failedPaths' = failedPaths \ {loaderPath}
               /\ loaderPc' = "loaded"
            \/ LoadFailed
       ELSE /\ loaderPc' = "same"
            /\ UNCHANGED <<m_NewMap, nLoaded, m_CurrentMapPath, failedPaths>>
    /\ UNCHANGED <<plannerVars, ribbonVars, poseVars, histVars, configMap, installs,
                   tryLockResult, m_MapMutex, waiting, loaderPath, nRefresh>>
    /\ UNCHANGED ribbonLockVars
    /\ UNCHANGED astarVars
    /\ UNCHANGED <<synth, obstacleVars>>

\* line 227: the loader thread ends and its lock_guard releases the mutex
LoaderExit ==
    /\ loaderPc \in {"loaded", "failed", "same"}
    /\ m_MapMutex' = "free"
    /\ loaderPc' = "none"
    /\ loaderPath' = ""
    /\ UNCHANGED <<plannerVars, ribbonVars, poseVars, mapVars, histVars,
                   m_CurrentMapPath, waiting, nRefresh, nLoaded, failedPaths>>
    /\ UNCHANGED ribbonLockVars
    /\ UNCHANGED astarVars
    /\ UNCHANGED <<synth, obstacleVars>>

\* ------------------------------------------- the ribbon mutex, step by step
\* the turning radii a setConfiguration call may carry
Radii == {InitialTurningRadius - 1, InitialTurningRadius}

\* line 231: addRibbon takes m_RibbonManagerMutex
addRibbonLock ==
    /\ m_RibbonManagerMutex = "free"
    /\ m_RibbonManagerMutex' = "caller"
    /\ ribbonAccess' = ribbonAccess \cup {"caller"}
    /\ UNCHANGED <<plannerVars, ribbonVars, poseVars, loaderVars, mapVars, histVars,
                   m_Heuristic, configHeuristic, copyHeuristic>>
    /\ UNCHANGED astarVars
    /\ UNCHANGED <<synth, obstacleVars>>

\* lines 232-233: the add, and the lock_guard releases the mutex
addRibbonUnlock(x) ==
    /\ m_RibbonManagerMutex = "caller"
    /\ m_RibbonManager' = RibbonManager_add(m_RibbonManager, x)
    /\ m_RibbonManagerMutex' = "free"
    /\ ribbonAccess' = ribbonAccess \ {"caller"}
    /\ UNCHANGED <<plannerVars, poseVars, loaderVars, mapVars, histVars,
                   m_Heuristic, configHeuristic, copyHeuristic>>
    /\ UNCHANGED astarVars
    /\ UNCHANGED <<synth, obstacleVars>>

\* lines 255-262: the config setters, then the switch enters
\* m_RibbonManager.setHeuristic for a known id, with no mutex taken; an
\* unknown id is ignored
setConfiguration(radius, coverageRadius, heuristic) ==
    /\ "config" \notin ribbonAccess
    /\ turningRadius' = radius
    /\ coverageTurningRadius' = coverageRadius
    /\ IF heuristic \in Heuristics
       THEN /\ ribbonAccess' = ribbonAccess \cup {"config"}
            /\ configHeuristic' = heuristic
       ELSE UNCHANGED <<ribbonAccess, configHeuristic>>
    /\ UNCHANGED <<m_PlannerState, pc, startState, plan, ribbonManagerCopy,
                   m_RadiusShrink, flagVars, ribbonVars, poseVars, loaderVars, mapVars,
                   histVars, m_RibbonManagerMutex, m_Heuristic, copyHeuristic>>
    /\ UNCHANGED astarVars
    /\ UNCHANGED <<synth, obstacleVars>>

\* lines 262-266: setHeuristic writes the heuristic of the live manager
setHeuristic ==
    /\ "config" \in ribbonAccess
    /\ m_Heuristic' = configHeuristic
    /\ ribbonAccess' = ribbonAccess \ {"config"}
    /\ configHeuristic' = NoHeuristic
    /\ UNCHANGED <<plannerVars, ribbonVars, poseVars, loaderVars, mapVars, histVars,
                   m_RibbonManagerMutex, copyHeuristic>>
    /\ UNCHANGED astarVars
    /\ UNCHANGED <<synth, obstacleVars>>

\* ------------------------------------------------------ AStarPlanner::plan
\* one poll of nowFn(): it returns now, after which the clock has moved on
\* (the unit of time is what the clock advances between two polls)
Poll == now' = now + 1

\* the deadline test with <= in place of <
BeforeDeadline_Inclusive(t, end) == t <= end

\* lines 138 and 175: now() < endTime
BeforeDeadline(t, end) == t < end

\* the plans a caller may pass as previousPlan, with the cost to go and the
\* goal test of the vertex at their end
PreviousPlans ==
    {q \in [empty : BOOLEAN, feasible : BOOLEAN, cost : Costs, h : Costs, goal : BOOLEAN] :
        /\ q.goal => q.h = 0
        /\ q.empty => q.feasible
        /\ (q.empty \/ ~q.feasible) => (q.cost = 0 /\ q.h = 0 /\ ~q.goal)}

\* what findStatesOnRibbonsOnCircle and findNearStatesOnRibbons may give
\* (lines 122-123): nothing, or one state that completes the coverage
RibbonSampleSets == {{}, {[kind |-> "sample", g |-> MaxCost, h |-> 0, goal |-> TRUE]}}

\* popVertexQueue: a vertex of least f leaves the queue (lines 94-98)
PopVertexQueue(queue) ==
    \E w \in queue :
        /\ \A u \in queue : Vertex_f(w) <= Vertex_f(u)
        /\ vertex' = w
        /\ vertexQueue' = queue \ {w}

\* lines 100-136: the call, up to the big loop
planCall(remaining, previous, h, goal, samples) ==
    /\ apc = "Idle"
    /\ timeRemaining' = remaining
    /\ previousPlan' = previous
    /\ Poll
    /\ endTime' = remaining + now
    /\ m_ExpandedCount' = 0
    /\ m_IterationCount' = 0
    /\ startV' = Vertex_makeRoot(h, goal)
    /\ m_BestVertex' = NullVertex
    /\ ribbonSamples' = samples
    /\ lastPlanEnd' = IF ~previous.empty /\ previous.feasible
                      THEN [kind |-> "prev", g |-> previous.cost, h |-> previous.h,
                            goal |-> previous.goal]
                      ELSE Vertex_makeRoot(h, goal)
    /\ apc' = "While"
    /\ UNCHANGED <<vertexQueue, vertex, aStarResult, returned, expired, goalPopped>>
    /\ UNCHANGED execVars

\* line 138: the condition of the big loop
While ==
    /\ apc = "While"
    /\ Poll
    /\ expired' = (expired \/ now >= endTime)
    /\ apc' = IF BeforeDeadline(now, endTime) THEN "Body" ELSE "Return"
    /\ UNCHANGED <<timeRemaining, previousPlan, endTime, startV, lastPlanEnd, ribbonSamples,
                   vertexQueue, m_BestVertex, vertex, aStarResult, m_ExpandedCount,
                   m_IterationCount, returned, goalPopped>>
    /\ UNCHANGED execVars

\* lines 139-154 and 174: clear the queue, stop on a best possible plan, else
\* push the start vertex, the end of the previous plan and the ribbon samples,
\* and enter aStar, which pops its first vertex
Body ==
    /\ apc = "Body"
    /\ IF m_BestVertex # NullVertex /\ Vertex_f(m_BestVertex) <= Vertex_f(startV)
       THEN /\ vertexQueue' = {}
            /\ apc' = "Return"
            /\ UNCHANGED vertex
       ELSE LET previousEnd == IF lastPlanEnd # startV THEN {lastPlanEnd} ELSE {}
                specific == IF coverageTurningRadius > 0 THEN ribbonSamples ELSE {}
            IN  /\ PopVertexQueue({startV} \cup previousEnd \cup specific)
                /\ apc' = "AStarWhile"
    /\ UNCHANGED <<now, timeRemaining, previousPlan, endTime, startV, lastPlanEnd,
                   ribbonSamples, m_BestVertex, aStarResult, m_ExpandedCount,
                   m_IterationCount, returned, expired, goalPopped>>
    /\ UNCHANGED execVars

\* line 175: the condition of the loop of aStar; line 186 when it fails
AStarWhile ==
    /\ apc = "AStarWhile"
    /\ Poll
    /\ expired' = (expired \/ now >= endTime)
    /\ IF BeforeDeadline(now, endTime)
       THEN apc' = "AStarTest" /\ UNCHANGED aStarResult
       ELSE apc' = "Update" /\ aStarResult' = NullVertex
    /\ UNCHANGED <<timeRemaining, previousPlan, endTime, startV, lastPlanEnd, ribbonSamples,
                   vertexQueue, m_BestVertex, vertex, m_ExpandedCount, m_IterationCount,
                   returned, goalPopped>>
    /\ UNCHANGED execVars

\* the body of aStar without the goal test: any vertex of smaller f is returned
AStarTest_NoGoal ==
    /\ apc = "AStarTest"
    /\ goalPopped' = (goalPopped \/ vertex.goal)
    /\ IF m_BestVertex = NullVertex \/ Vertex_f(vertex) < Vertex_f(m_BestVertex)
       THEN /\ aStarResult' = vertex
            /\ apc' = "Update"
            /\ UNCHANGED <<vertexQueue, vertex, m_ExpandedCount>>
       ELSE \E children \in {{}} \cup {{c} : c \in VerticesOfKind("sample")} :
                /\ m_ExpandedCount' = m_ExpandedCount + 1
                /\ IF vertexQueue \cup children = {}
                   THEN /\ aStarResult' = NullVertex
                        /\ apc' = "Update"
                        /\ UNCHANGED <<vertexQueue, vertex>>
                   ELSE /\ PopVertexQueue(vertexQueue \cup children)
                        /\ apc' = "AStarWhile"
                        /\ UNCHANGED aStarResult
    /\ UNCHANGED <<now, timeRemaining, previousPlan, endTime, startV, lastPlanEnd,
                   ribbonSamples, m_BestVertex, m_IterationCount, returned, expired>>
    /\ UNCHANGED execVars

\* lines 177-183: a popped vertex that passes the goal test and beats the best
\* vertex is returned; any other is expanded (its feasible children are
\* pushed), and the next vertex is popped unless the queue is empty
AStarTest ==
    /\ apc = "AStarTest"
    /\ goalPopped' = (goalPopped \/ vertex.goal)
    /\ IF vertex.goal /\ (m_BestVertex = NullVertex \/ Vertex_f(vertex) < Vertex_f(m_BestVertex))
       THEN /\ aStarResult' = vertex
            /\ apc' = "Update"
            /\ UNCHANGED <<vertexQueue, vertex, m_ExpandedCount>>
       ELSE \E children \in {{}} \cup {{c} : c \in VerticesOfKind("sample")} :
                /\ m_ExpandedCount' = m_ExpandedCount + 1
                /\ IF vertexQueue \cup children = {}
                   THEN /\ aStarResult' = NullVertex
                        /\ apc' = "Update"
                        /\ UNCHANGED <<vertexQueue, vertex>>
                   ELSE /\ PopVertexQueue(vertexQueue \cup children)
                        /\ apc' = "AStarWhile"
                        /\ UNCHANGED aStarResult
    /\ UNCHANGED <<now, timeRemaining, previousPlan, endTime, startV, lastPlanEnd,
                   ribbonSamples, m_BestVertex, m_IterationCount, returned, expired>>
    /\ UNCHANGED execVars

\* the update of the best vertex without its test
UpdateBest_Unconditional ==
    /\ apc = "Update"
    /\ m_BestVertex' = aStarResult
    /\ m_IterationCount' = m_IterationCount + 1
    /\ apc' = "While"
    /\ UNCHANGED <<now, timeRemaining, previousPlan, endTime, startV, lastPlanEnd,
                   ribbonSamples, vertexQueue, vertex, aStarResult, m_ExpandedCount,
                   returned, expired, goalPopped>>
    /\ UNCHANGED execVars

\* lines 155-160: keep what aStar returned if there is no best vertex yet or
\* it is a vertex of smaller f
UpdateBest ==
    /\ apc = "Update"
    /\ m_BestVertex' =
           IF \/ m_BestVertex = NullVertex
              \/ (aStarResult # NullVertex /\ Vertex_f(aStarResult) < Vertex_f(m_BestVertex))
           THEN aStarResult
           ELSE m_BestVertex
    /\ m_IterationCount' = m_IterationCount + 1
    /\ apc' = "While"
    /\ UNCHANGED <<now, timeRemaining, previousPlan, endTime, startV, lastPlanEnd,
                   ribbonSamples, vertexQueue, vertex, aStarResult, m_ExpandedCount,
                   returned, expired, goalPopped>>
    /\ UNCHANGED execVars

\* lines 162-170: the empty plan without a best vertex, else its trace
Return ==
    /\ apc = "Return"
    /\ returned' = IF m_BestVertex = NullVertex THEN EmptyPlan ELSE TracePlan(m_BestVertex)
    /\ apc' = "Done"
    /\ UNCHANGED <<now, timeRemaining, previousPlan, endTime, startV, lastPlanEnd,
                   ribbonSamples, vertexQueue, m_BestVertex, vertex, aStarResult,
                   m_ExpandedCount, m_IterationCount, expired, goalPopped>>
    /\ UNCHANGED execVars

\* the steps of one call of plan after its entry
planSteps ==
    \/ While
    \/ Body
    \/ AStarWhile
    \/ AStarTest
    \/ UpdateBest
    \/ Return

\* ------------------------------------------------ obstacles and the clock
\* lines 201-203 and 292-294: the call is forwarded to the manager, with no
\* lock of the executive; the distributions of the n-th call are written n
updateDynamicObstacle(mmsi) ==
    /\ nObstacleUpdates < MaxObstacleUpdates
    /\ nObstacleUpdates' = nObstacleUpdates + 1
    /\ m_DynamicObstaclesManager' =
           DynamicObstaclesManager_update(m_DynamicObstaclesManager, mmsi, nObstacleUpdates + 1)
    /\ obstacleHistory' = obstacleHistory \cup {m_DynamicObstaclesManager'}
    /\ UNCHANGED <<plannerVars, ribbonVars, poseVars, loaderVars, mapVars, histVars,
                   ribbonLockVars, synth, configObstacles, astarVars>>

\* the time of the trajectory publisher passes
Tick ==
    /\ now < MaxTime
    /\ now' = now + 1
    /\ UNCHANGED <<execVars, searchVars>>

\* ---------------------------------------------------------- specifications
Ribbons ==
    \/ \E x \in Cells : addRibbon(x)
    \/ clearRibbons

\* the executive with its planning task and every caller
Next ==
    \/ startPlanner
    \/ cancelPlanner
    \/ planLoop
    \/ \E x \in Pos : updateCovered(x, 0, 1)
    \/ Ribbons

Spec == Init /\ [][Next]_vars

\* pose and ribbon updates alone, over every heading and time
NextCover ==
    \/ \E x \in Pos, heading \in Headings, t \in Times : updateCovered(x, heading, t)
    \/ Ribbons

SpecCover == InitCover /\ [][NextCover]_vars

\* the planning task with the map loaders
NextMap ==
    \/ startPlanner
    \/ cancelPlanner
    \/ planLoop
    \/ \E x \in Cells : addRibbon(x)
    \/ \E p \in Paths : refreshMap(p)
    \/ \E p \in Paths : LoaderLock(p)
    \/ LoaderLoad
    \/ LoaderExit

SpecMap == InitReuse /\ [][NextMap]_vars

\* the planning task is a thread of its own (std::async with launch::async,
\* line 275): the scheduler lets it run, and its waits and sleeps are timed
FairSpec == InitReuse /\ [][Next]_vars /\ WF_vars(planLoop)

\* the planning task with the callers that touch the live ribbon manager
NextRibbon ==
    \/ startPlanner
    \/ planLoop
    \/ \E x \in Pos : updateCovered(x, 0, 1)
    \/ addRibbonLock
    \/ \E x \in Cells : addRibbonUnlock(x)
    \/ clearRibbons
    \/ \E r \in Radii, h \in {0, 5} : setConfiguration(r, r, h)
    \/ setHeuristic

SpecRibbon == InitReuse /\ [][NextRibbon]_vars

\* the planning task with the pose updates, as time passes
NextPose ==
    \/ startPlanner
    \/ planLoop
    \/ Tick
    \/ \E x \in Pos : updateCovered(x, 0, now)
    \/ \E x \in Cells : addRibbon(x)

SpecPose == InitReuse /\ [][NextPose]_vars

\* the planning task with the obstacle updates
NextObstacles ==
    \/ startPlanner
    \/ planLoop
    \/ \E mmsi \in Mmsis : updateDynamicObstacle(mmsi)
    \/ \E x \in Cells : addRibbon(x)

SpecObstacles == InitReuse /\ [][NextObstacles]_vars

\* one call of AStarPlanner::plan, over every argument; the planner never
\* suspends, so each of its steps is taken
NextAStar ==
    \/ /\ apc = "Idle"
       /\ \E remaining \in (0 - 1)..MaxRemaining, previous \in PreviousPlans,
             h \in Costs, goal \in BOOLEAN,
             samples \in RibbonSampleSets :
               (goal => h = 0) /\ planCall(remaining, previous, h, goal, samples)
    \/ planSteps

SpecAStar == InitReuse /\ [][NextAStar]_vars /\ WF_vars(planSteps)

\* ------------------------------------------------------------ properties
Abs(n) == IF n < 0 THEN 0 - n ELSE n

\* C1 (as claimed): PlannerState starts Inactive and changes only by
\* Inactive->Running, Running->Cancelled and Cancelled->Inactive; it never
\* goes from Running directly to Inactive.
C1_OnlyCycleTransitions ==
    /\ m_PlannerState = "Inactive"
    /\ [][m_PlannerState' # m_PlannerState =>
            <<m_PlannerState, m_PlannerState'>> \in
                {<<"Inactive", "Running">>, <<"Running", "Cancelled">>,
                 <<"Cancelled", "Inactive">>}]_vars

\* C1 (amended): PlannerState starts Inactive and changes only by
\* Inactive->Running, Running->Cancelled, Cancelled->Inactive, and by
\* Running->Inactive when the loop leaves because the ribbons are done.
C1_CycleOrDoneExit ==
    /\ m_PlannerState = "Inactive"
    /\ [][m_PlannerState' # m_PlannerState =>
            \/ <<m_PlannerState, m_PlannerState'>> \in
                   {<<"Inactive", "Running">>, <<"Running", "Cancelled">>,
                    <<"Cancelled", "Inactive">>}
            \/ /\ <<m_PlannerState, m_PlannerState'>> = <<"Running", "Inactive">>
               /\ pc = "Exit"
               /\ exitPath = "done"
               /\ allDoneCalls = 1]_vars

\* a run that was cancelled and has ended: Inactive -> Running -> Cancelled -> Inactive
C1_Witness ==
    /\ pc = "Idle"
    /\ exitPath = "cancelled"
    /\ cancelCalled
    /\ ~threw
    /\ m_PlannerState = "Inactive"

\* the planning task halted by the model's bound on m_RadiusShrink
BoundStall ==
    /\ pc = "CheckDone"
    /\ ~RibbonManager_done(m_RibbonManager)
    /\ ~WithinShrinkBound

\* C2 (as claimed): after a cancelPlanner call issued once startPlanner has
\* returned, the planning task eventually ends with PlannerState Inactive
\* (stated for the runs in which no task ends by a rethrown exception or a
\* handshake time-out, and the model's bound halts nothing).
C2_CancelEventuallyInactive ==
    ([](exitPath \notin {"rethrow", "timeout"}) /\ []~BoundStall)
        => (cancelCalled ~> (pc = "Idle" /\ m_PlannerState = "Inactive"))

\* C3 (as claimed): an updateCovered call that follows another one (made at a
\* positive time) at a later time, with |heading change| / (time change) above
\* c_CoverageHeadingRateMax, leaves the live ribbon manager as it was.
C3_HeadingRateGate ==
    [][(/\ updSeq # 0
        /\ updSeq' # updSeq
        /\ 0 < m_LastUpdateTime
        /\ m_LastUpdateTime < m_LastUpdateTime'
        /\ Abs(m_LastHeading' - m_LastHeading) >
               c_CoverageHeadingRateMax * (m_LastUpdateTime' - m_LastUpdateTime))
       => m_RibbonManager' = m_RibbonManager]_vars

\* C4: once a std::exception from planner.plan has been caught, PlannerState
\* is Cancelled until the task ends, the task is past its plan call and never
\* returns to one, and it ends through the cancellation exit with
\* PlannerState Inactive.
C4_ExceptionCancelsAndExits ==
    threw =>
        /\ pc \in {"Publish", "LoopTop", "Exit", "Idle"}
        /\ pc # "Idle" => m_PlannerState = "Cancelled"
        /\ pc = "Idle" => (m_PlannerState = "Inactive" /\ exitPath = "cancelled")

\* a task that caught a std::exception and has ended
C4_Witness ==
    /\ threw
    /\ pc = "Idle"
    /\ m_PlannerState = "Inactive"

\* C5 (as claimed): however the planning task finished, it left PlannerState
\* Inactive.
C5_FinishedTaskInactive ==
    (pc = "Idle" /\ exitPath # "none") => m_PlannerState = "Inactive"

\* C6: allDone is called only by a done() check that found the live ribbon
\* manager done, in an iteration whose top check saw a state other than
\* Cancelled; at most once per run; and after it the run is at its exit, so it
\* calls neither planner.plan nor publishPlan again.
C6_AllDoneOnce ==
    /\ [](allDoneCalls <= 1 /\ (allDoneCalls >= 1 => pc \in {"Exit", "Idle"}))
    /\ [][allDoneCalls' > allDoneCalls =>
            /\ checkedState \in {"Inactive", "Running"}
            /\ RibbonManager_done(m_RibbonManager)]_vars

\* a run that called allDone and has ended
C6_Witness ==
    /\ allDoneCalls = 1
    /\ pc = "Idle"
    /\ exitPath = "done"

\* C7: if PlannerState is never Cancelled (no cancellation, no exception) and
\* from some point on the live ribbon manager is done, every run of the loop
\* calls allDone and ends.
C7_AllDoneEventually ==
    ([](m_PlannerState # "Cancelled") /\ <>[]RibbonManager_done(m_RibbonManager))
        => [](pc \notin {"Idle", "Handshake"} =>
                 <>(allDoneCalls = 1 /\ pc = "Idle" /\ exitPath = "done"))

\* a run that was never cancelled, iterated, and ended after allDone
C7_Witness ==
    /\ allDoneCalls = 1
    /\ pc = "Idle"
    /\ exitPath = "done"
    /\ ~cancelCalled
    /\ ~threw
    /\ m_PlannerState = "Inactive"
    /\ m_LastState.time # -1

\* C8 (as claimed): after an iteration that found the controller diverged, the
\* plan handed to the next planner.plan call is empty and m_RadiusShrink is
\* zero when the next iteration begins, with the experiment enabled or not.
C8_ResetAfterDivergence ==
    diverged =>
        /\ plan = "empty"
        /\ pc \in {"LoopTop", "CheckDone", "MapSwap", "Prepare"} => m_RadiusShrink = 0

\* C9: the map swap is never blocked; a try_lock made while a loader holds the
\* mutex changes neither the config map nor m_NewMap; a try_lock that gets the
\* mutex with a map staged installs that map and empties m_NewMap; no loaded
\* map is installed twice.
C9_TryLockNeverWaits ==
    /\ []((pc = "MapSwap" => ENABLED MapSwap) /\ \A n \in DOMAIN installs : installs[n] <= 1)
    /\ [][(pc = "MapSwap" /\ pc' = "Prepare") =>
            /\ m_MapMutex = "loader" =>
                   (tryLockResult' = "contended" /\ configMap' = configMap /\ m_NewMap' = m_NewMap)
            /\ (tryLockResult' = "acquired" /\ m_NewMap # NullMap) =>
                   (configMap' = m_NewMap /\ m_NewMap' = NullMap)]_vars

\* an iteration skipped the swap under contention after an earlier one installed a map
C9_Witness ==
    /\ pc = "Prepare"
    /\ tryLockResult = "contended"
    /\ \E n \in DOMAIN installs : installs[n] = 1 /\ configMap.id = n

\* C10 (as claimed): a failed load leaves m_NewMap null and changes neither
\* the config map nor PlannerState, and a later refreshMap of a path whose
\* latest load failed attempts the load again (the path is not the current one).
C10_FailedLoadRetried ==
    /\ []((loaderPc = "failed" => m_NewMap = NullMap)
          /\ \A p \in failedPaths : m_CurrentMapPath # p)
    /\ [][(loaderPc' = "failed" /\ loaderPc # "failed") =>
            (configMap' = configMap /\ m_PlannerState' = m_PlannerState /\ pc' = pc)]_vars

\* C10 (amended): as claimed, but the load is attempted again only for a path
\* other than the empty string.
C10_FailedLoadRetriedNonEmpty ==
    /\ []((loaderPc = "failed" => m_NewMap = NullMap)
          /\ \A p \in failedPaths \ {""} : m_CurrentMapPath # p)
    /\ [][(loaderPc' = "failed" /\ loaderPc # "failed") =>
            (configMap' = configMap /\ m_PlannerState' = m_PlannerState /\ pc' = pc)]_vars

\* a loader is about to load again a path whose latest load failed, while the
\* planning loop runs
C10_Witness ==
    /\ loaderPc = "locked"
    /\ loaderPath = "grid.map"
    /\ loaderPath \in failedPaths
    /\ m_CurrentMapPath # loaderPath
    /\ m_PlannerState = "Running"

\* C11 (as claimed): a thread in the middle of an access to the live ribbon
\* manager holds m_RibbonManagerMutex, at most one thread is in such an access,
\* and the accesses made in one step under the mutex (cover, clear, the done()
\* check and display, the snapshot copy) are made while no other thread is in
\* the middle of one.
C11_RibbonAccessUnderMutex ==
    /\ [](\A t \in ribbonAccess : m_RibbonManagerMutex = t)
    /\ [](Cardinality(ribbonAccess) <= 1)
    /\ [][(/\ ribbonAccess' = ribbonAccess
           /\ \/ m_RibbonManager' # m_RibbonManager
              \/ (pc \in {"CheckDone", "Snapshot"} /\ pc' # pc))
          => ribbonAccess = {}]_vars

\* C12: a call of plan returns a non-empty plan only with m_BestVertex set;
\* m_BestVertex is only ever set, by the update that follows aStar, to the
\* vertex aStar popped last, which passed the goal test; and a call in which
\* no popped vertex passed the goal test returns the empty plan.
C12_BestVertexIsPoppedGoal ==
    /\ []((apc = "Done" /\ ~returned.empty) => m_BestVertex # NullVertex)
    /\ []((apc = "Done" /\ ~goalPopped) => returned = EmptyPlan)
    /\ [][(m_BestVertex' # m_BestVertex /\ m_BestVertex' # NullVertex) =>
            /\ apc = "Update"
            /\ m_BestVertex' = vertex
            /\ vertex.goal
            /\ goalPopped]_vars

\* a call that expanded a vertex and returned the trace of a goal vertex
C12_Witness ==
    /\ apc = "Done"
    /\ ~returned.empty
    /\ m_BestVertex.goal
    /\ m_ExpandedCount >= 1

\* C13 (as claimed): a call of plan with timeRemaining > 0 and a non-empty
\* previous plan whose every edge is feasible returns a non-empty plan that
\* costs no more than the previous plan.
C13_ReuseNoWorse ==
    (/\ apc = "Done"
     /\ ~previousPlan.empty
     /\ previousPlan.feasible
     /\ timeRemaining > 0)
        => (~returned.empty /\ returned.cost <= previousPlan.cost)

\* C14: with a clock that advances on every poll, a call of plan ends; once a
\* poll has returned a time >= endTime the call is in neither loop body again,
\* expands nothing and pushes nothing (the queue and the popped vertex stay as
\* they are); and a call with timeRemaining <= 0 returns the empty plan having
\* pushed and expanded nothing.
C14_DeadlineHonoured ==
    /\ [](apc # "Idle" => <>(apc = "Done"))
    /\ [](expired => apc \notin {"Body", "AStarTest"})
    /\ [][expired' => (/\ m_ExpandedCount' = m_ExpandedCount
                       /\ vertexQueue' = vertexQueue
                       /\ vertex' = vertex)]_vars
    /\ []((apc = "Done" /\ timeRemaining <= 0) =>
            /\ returned = EmptyPlan
            /\ vertexQueue = {}
            /\ vertex = NullVertex
            /\ m_ExpandedCount = 0
            /\ m_IterationCount = 0)

\* a call that expanded vertices until a poll in aStar found the deadline passed
C14_Witness ==
    /\ apc = "Done"
    /\ expired
    /\ m_ExpandedCount >= 2
    /\ returned = EmptyPlan
    /\ timeRemaining > 0

\* C20: within a call of plan a best vertex stays non-null and is replaced
\* only by the vertex aStar returned, of strictly smaller f; and the big loop
\* is left either by a poll that found the deadline reached or, at line 140
\* after a poll that did not, exactly when the best vertex exists with
\* f <= startV.f.
C20_BestVertexDecreases ==
    /\ [][m_BestVertex # NullVertex =>
            /\ m_BestVertex' # NullVertex
            /\ m_BestVertex' # m_BestVertex =>
                   /\ m_BestVertex' = aStarResult
                   /\ Vertex_f(m_BestVertex') < Vertex_f(m_BestVertex)]_vars
    /\ [][(apc = "Body" /\ apc' # apc) =>
            ((apc' = "Return") <=>
                (m_BestVertex # NullVertex /\ Vertex_f(m_BestVertex) <= Vertex_f(startV)))]_vars
    /\ [][(apc' = "Return" /\ apc # "Return") =>
            (apc = "Body" \/ (apc = "While" /\ now >= endTime))]_vars

\* the update is about to replace a best vertex by one of smaller f
C20_Witness ==
    /\ apc = "Update"
    /\ m_BestVertex # NullVertex
    /\ aStarResult # NullVertex
    /\ Vertex_f(aStarResult) < Vertex_f(m_BestVertex)

\* C15 (as claimed): with the radius-shrink experiment enabled, m_RadiusShrink
\* is at every point what has been subtracted from each turning radius since
\* they had their initial value, and a rollback on controller divergence
\* leaves both radii at that initial value.
C15_ShrinkAccounting ==
    /\ [](c_RadiusShrinkEnabled =>
            /\ turningRadius + m_RadiusShrink = InitialTurningRadius
            /\ coverageTurningRadius + m_RadiusShrink = InitialTurningRadius)
    /\ [][(c_RadiusShrinkEnabled /\ pc = "Publish" /\ diverged') =>
            /\ turningRadius' = InitialTurningRadius
            /\ coverageTurningRadius' = InitialTurningRadius]_vars

\* C16 (as claimed): an iteration that begins with the sentinel start state
\* pushes m_LastState forward by P - (now - lastStateTime) (stated for the
\* iterations that find a pose recorded by updateCovered).
C16_PushByElapsed ==
    [][(pc = "Prepare" /\ pc' = "Snapshot" /\ ~startState.valid /\ 0 <= m_LastState.time) =>
          synth'.dt = c_PlanningTimeSeconds - (now - m_LastState.time)]_vars

\* C16 (amended): the first iteration and the iteration after an empty plan
\* begin with the sentinel start state; an iteration that begins with it, and
\* no other, synthesizes the start state, pushing m_LastState forward by
\* now + P - lastStateTime; every iteration plans from a valid start state.
C16_PushToNowPlusP ==
    /\ [](pc \in {"Snapshot", "Cover", "Plan"} => startState.valid)
    /\ [][(pc = "Prepare" /\ pc' = "Snapshot") =>
            /\ synth'.used <=> ~startState.valid
            /\ ~startState.valid =>
                   /\ synth'.dt = now + c_PlanningTimeSeconds - m_LastState.time
                   /\ startState' \in State_push(m_LastState)]_vars
    /\ [][(pc = "Handshake" /\ pc' = "LoopTop") => startState' = SentinelState]_vars
    /\ [][(pc = "Publish" /\ pc' = "LoopTop" /\ plan = "empty") =>
            startState' = SentinelState]_vars

\* the start state was synthesized from a pose received before the current time
C16_Witness ==
    /\ pc = "Snapshot"
    /\ synth.used
    /\ 0 <= synth.lastTime
    /\ synth.lastTime < synth.now
    /\ synth.dt = synth.now + c_PlanningTimeSeconds - synth.lastTime

\* C17: the snapshot is taken in one step in which no addRibbon is part-way
\* through (updateCovered's cover and clearRibbons are single steps under the
\* mutex), and equals the live manager, ribbons and heuristic, of that instant;
\* afterwards it is changed only by the loop's coverBetween; the loop's
\* coverBetween and the planner's use of the snapshot leave the live manager
\* unchanged; and no step taken while the snapshot exists, live updates
\* included, changes the snapshot.
C17_SnapshotOfOneInstant ==
    /\ [][(pc = "Snapshot" /\ pc' = "Cover") =>
            /\ "caller" \notin ribbonAccess
            /\ ribbonManagerCopy' = m_RibbonManager
            /\ copyHeuristic' = m_Heuristic
            /\ UNCHANGED <<m_RibbonManager, m_Heuristic>>]_vars
    /\ [][(pc = "Cover" /\ pc' = "Plan") =>
            /\ ribbonManagerCopy' =
                   RibbonManager_coverBetween(ribbonManagerCopy, m_LastState.x, startState.x)
            /\ copyHeuristic' = copyHeuristic
            /\ UNCHANGED <<m_RibbonManager, m_Heuristic>>]_vars
    /\ [][(pc = "Plan" /\ pc' # "Plan") => UNCHANGED <<m_RibbonManager, m_Heuristic>>]_vars
    /\ [][(pc \in {"Cover", "Plan"} /\ pc' = pc) =>
            UNCHANGED <<ribbonManagerCopy, copyHeuristic>>]_vars

\* C17 witness: the planner is about to be handed a snapshot that still holds
\* ribbons and the heuristic of the copy, after the live manager was cleared
\* and given another heuristic
C17_Witness ==
    /\ pc = "Plan"
    /\ ribbonManagerCopy # {}
    /\ m_RibbonManager = {}
    /\ copyHeuristic \in Heuristics
    /\ copyHeuristic # m_Heuristic

\* C18 (as claimed): the last pose that an iteration pushes to synthesize its
\* start state (line 100) and the last pose whose position it passes to
\* coverBetween (line 125) were written by the same updateCovered call
\* (stated for the iterations that push a pose written by updateCovered).
C18_PoseFromOneCall ==
    [][(pc = "Cover" /\ pc' = "Plan" /\ synth.used /\ synth.seq # 0) =>
          updSeq = synth.seq]_vars

C21_NoPublishAfterThrow ==
    [][(pc = "Publish" /\ pc' = "LoopTop" /\ threw /\ m_PlannerState = "Cancelled") =>
          plan = "empty"]_vars

\* C22 (as claimed, its last clause): while the planning loop runs
\* un-cancelled, a load that fails leaves a map that an earlier load staged
\* in m_NewMap, and that has not been installed yet, in the staging slot.
C22_FailedLoadKeepsStagedMap ==
    [][(loaderPc = "locked" /\ loaderPc' = "failed" /\ m_PlannerState = "Running"
           /\ m_NewMap # NullMap /\ installs[m_NewMap.id] = 0) =>
          m_NewMap' = m_NewMap]_vars

====
